---- MODULE Spec2Model ----
(***************************************************************************)
(* Model of PodcastGenerator (src/video_dub.py): loading a transcript,     *)
(* chunking each sentence's words at pauses, resolving the speaker's       *)
(* voice, two-pass synthesis/fitting, placement into the output buffer,    *)
(* normalization and writing; and of main and process_video (src/main.py): *)
(* the two download threads, their result queue, the processing steps and  *)
(* the cleanup of temporary files.                                         *)
(*                                                                         *)
(* Conventions.  Times are integer milliseconds.  A waveform is a sequence *)
(* of integer samples; Python's 0-based slice buf[a:b] is the 1-based      *)
(* index range a+1..b.  A speed is kept as an exact fraction [num, den];   *)
(* the normalization is computed in rounded floating point.  The synthesis *)
(* pipeline (kokoro), soundfile, yt-dlp, the transcription service and     *)
(* combine_media.sh are external: their results are nondeterministic       *)
(* choices.                                                                *)
(***************************************************************************)
EXTENDS Integers, Sequences, FiniteSets, TLC

\* ------------------------------------------------------------------ bounds
MaxUnits == 2          \* words plus word-less sentences in one transcript
MaxWave == 3           \* longest waveform the synthesis returns, in samples
MaxChunkWords == 3     \* words of the sentence given to the chunker alone
MaxNormLen == 2        \* samples of the buffer given to the normalization alone
Precision == 5         \* significand bits of the floating point (float64 has 53)
MaxUrls == 2           \* URLs on main's command line

Times == {0, 500, 1000}             \* timestamps of the run's transcripts
SampleRates == {2, 3}               \* configured sample rates (samples/s)
FirstAmp == {1}                     \* amplitudes of a first-pass waveform
SecondAmp == {-2}                   \* amplitudes of a second-pass waveform
ChunkTimes == {0, 400, 900, 1401}   \* timestamps given to the chunker alone
SpeakerInputs == {"null", "B", "Z"} \* speaker labels of the transcripts
WordNames == <<"a", "b", "c", "d">> \* the k-th word of a sentence

\* --------------------------------------------------------- program constants
Null == "null"                      \* Python's None / a missing field
pause_threshold == 500

speaker_settings ==
  [l \in {"A", "B", "C", "D", "E", "F", "0", "1", "2", "3", "4", "5"} |->
     [voice |-> CASE l \in {"A", "0"} -> "af_alloy"
                  [] l \in {"B", "1"} -> "af_aoede"
                  [] l \in {"C", "2"} -> "af_bella"
                  [] l \in {"D", "3"} -> "af_heart"
                  [] l \in {"E", "4"} -> "af_jessica"
                  [] l \in {"F", "5"} -> "af_kore",
      lang |-> "a",
      speed |-> [num |-> 1, den |-> 1]]]

\* ------------------------------------------------------------ pure helpers
Min(a, b) == IF a < b THEN a ELSE b
Max(a, b) == IF a > b THEN a ELSE b

RECURSIVE SeqMax(_)
\* max(all_end_times) over a non-empty sequence of integers
SeqMax(s) == IF Len(s) = 1 THEN s[1] ELSE Max(s[1], SeqMax(Tail(s)))

\* sorted(..., key=start_ms): insert w after every element whose key is <= its own
RECURSIVE InsertByStart(_, _)
InsertByStart(sorted, w) ==
  IF sorted = <<>> THEN <<w>>
  ELSE IF sorted[Len(sorted)].start_ms <= w.start_ms THEN Append(sorted, w)
  ELSE Append(InsertByStart(SubSeq(sorted, 1, Len(sorted) - 1), w), sorted[Len(sorted)])

RECURSIVE SortByStart(_)
SortByStart(ws) ==
  IF ws = <<>> THEN <<>>
  ELSE InsertByStart(SortByStart(SubSeq(ws, 1, Len(ws) - 1)), ws[Len(ws)])

\* The scan of lines 157-171: k is the next word, chunks_ and current the loop's lists.
RECURSIVE ChunkScan(_, _, _, _)
ChunkScan(ws, k, chunks_, current) ==
  IF k > Len(ws)
  THEN IF current # <<>> THEN Append(chunks_, current) ELSE chunks_
  ELSE IF current = <<>>
       THEN ChunkScan(ws, k + 1, chunks_, <<ws[k]>>)
       ELSE IF ws[k].start_ms - current[Len(current)].end_ms > pause_threshold
            THEN ChunkScan(ws, k + 1, Append(chunks_, current), <<ws[k]>>)
            ELSE ChunkScan(ws, k + 1, chunks_, Append(current, ws[k]))

\* A plausible slip: the sort is dropped and the words are scanned as given.
BuildChunksNoSort(word_timestamps) ==
  ChunkScan(word_timestamps, 1, <<>>, <<>>)

\* A plausible slip: the comparison is >= instead of >.
RECURSIVE ChunkScanGe(_, _, _, _)
ChunkScanGe(ws, k, chunks_, current) ==
  IF k > Len(ws)
  THEN IF current # <<>> THEN Append(chunks_, current) ELSE chunks_
  ELSE IF current = <<>>
       THEN ChunkScanGe(ws, k + 1, chunks_, <<ws[k]>>)
       ELSE IF ws[k].start_ms - current[Len(current)].end_ms >= pause_threshold
            THEN ChunkScanGe(ws, k + 1, Append(chunks_, current), <<ws[k]>>)
            ELSE ChunkScanGe(ws, k + 1, chunks_, Append(current, ws[k]))

BuildChunksGe(word_timestamps) ==
  ChunkScanGe(SortByStart(word_timestamps), 1, <<>>, <<>>)

\* Lines 154-171: sort by start_ms, then group at pauses.
BuildChunks(word_timestamps) ==
  ChunkScan(SortByStart(word_timestamps), 1, <<>>, <<>>)

RECURSIVE Flatten(_)
Flatten(ss) == IF ss = <<>> THEN <<>> ELSE ss[1] \o Flatten(Tail(ss))


\* ------------------------------------------------------------------ inputs
\* {word, start_ms, end_ms} with start_ms <= end_ms; the k-th word is named WordNames[k]
WordsOver(T, n) ==
  {[k \in 1..n |-> [word |-> WordNames[k], start_ms |-> f[k][1], end_ms |-> f[k][2]]] :
     f \in [1..n -> {p \in T \X T : p[1] <= p[2]}]}

\* A sentence without word_timestamps: its own text (possibly blank) and timestamps.
WholeSentences ==
  {[speaker |-> sp, text |-> tx, start_time_ms |-> p[1], end_time_ms |-> p[2],
    word_timestamps |-> <<>>] :
     sp \in SpeakerInputs, tx \in {<<>>, <<"hello">>},
     p \in {q \in Times \X Times : q[1] <= q[2]}}

\* A sentence with n word_timestamps; its text is the words, its start the first word's.
WordSentences(n) ==
  {[speaker |-> sp, text |-> [k \in 1..n |-> ws[k].word],
    start_time_ms |-> ws[1].start_ms, end_time_ms |-> e, word_timestamps |-> ws] :
     sp \in SpeakerInputs, e \in Times, ws \in WordsOver(Times, n)}

Units(sentence) ==
  IF sentence.word_timestamps = <<>> THEN 1 ELSE Len(sentence.word_timestamps)

RECURSIVE TotalUnits(_)
TotalUnits(ss) == IF ss = <<>> THEN 0 ELSE Units(ss[1]) + TotalUnits(Tail(ss))

SentencePool(maxWords) ==
  WholeSentences \cup UNION {WordSentences(n) : n \in 1..maxWords}

\* Every sentence array of at most MaxUnits units.
SentenceArrays ==
  UNION {{ss \in [1..n -> SentencePool(MaxUnits - n + 1)] : TotalUnits(ss) <= MaxUnits} :
           n \in 0..MaxUnits}

\* A transcript document: the sentence array under the top-level key `key`.
Documents ==
  {[key |-> k, items |-> ss] : k \in {"sentences", "utterances"}, ss \in SentenceArrays}

\* ------------------------------------------------------------------- state
VARIABLES
  pc,            \* position in generate_podcast_from_json
  data,          \* the transcript document read from json_file
  sample_rate,   \* self.sample_rate
  total_samples, \* total_samples (line 129)
  final_audio,   \* final_audio (numerators; the sample is final_audio[k] / scale)
  scale,         \* common denominator of final_audio
  i,             \* index of the sentence being processed (1-based)
  speaker_label, \* speaker_label after lines 137-146
  settings,      \* settings (line 148)
  chunks,        \* chunks of the current sentence
  chunk_idx,     \* index of the chunk being processed (1-based)
  audio,         \* audio of the current unit
  calls,         \* generate_audio_segment calls of the current unit, in order
  exc,           \* the exception that left generate_podcast_from_json, or "none"
  ret,           \* the value returned, or "running"
  output_file,   \* the files sf.write produced: none, or the one output file
  placements,    \* history: every slice assignment into final_audio, in order
  alloc_count,   \* history: how many times final_audio was allocated
  synth_total    \* history: generate_audio_segment calls of the whole run

\* the state of src/main.py: main's loop over the URLs, process_video and its workers
VARIABLES
  url_count,     \* len(urls), the URLs given on the command line
  url_idx,       \* idx of main's loop: the URL being processed (0 before the first)
  mpc,           \* position of the main thread in main / process_video
  workers,       \* the download threads: <<URL, task>> -> thread state and result
  result_queue,  \* result_queue of each URL's process_video call
  held,          \* the (task, success, msg) taken by result_queue.get, or <<>>
  files,         \* the working directory: file name -> URL whose data it holds, 0 if absent
  finals,        \* the final output files that exist (their counters)
  temp_files,    \* temp_files of the current process_video call
  video_file,    \* video_file of the current process_video call
  final_output,  \* final_output of the current process_video call
  outcome,       \* how process_video ended for each URL
  started,       \* history: the steps process_video started for each URL
  remove_failed  \* history: temp files of each URL whose os.remove raised

podVars == <<pc, data, sample_rate, total_samples, final_audio, scale, i, speaker_label,
             settings, chunks, chunk_idx, audio, calls, exc, ret, output_file,
             placements, alloc_count, synth_total>>

mainVars == <<url_count, url_idx, mpc, workers, result_queue, held, files, finals,
              temp_files, video_file, final_output, outcome, started, remove_failed>>

vars == <<podVars, mainVars>>

\* ------------------------------------------------- src/main.py: names, Init
URLs == 1..MaxUrls
Tasks == {"audio", "video"}
AudioOutput == "downloaded_audio.mp3"
\* what yt-dlp makes of "downloaded_video.%(ext)s"
VideoNames == {"downloaded_video.mp4", "downloaded_video.webm"}
TranscriptionFile == "transcription-with-timestamps_one.json"
DubbedAudio == "podcast_two.wav"
FileNames == {AudioOutput, TranscriptionFile, DubbedAudio} \cup VideoNames

\* a thread that was not started
Unstarted == [st |-> "unstarted", success |-> FALSE, msg |-> "null"]

\* process_video has not been called: no thread, no file, empty queues
MainFresh ==
  /\ url_idx = 0
  /\ workers = [w \in URLs \X Tasks |-> Unstarted]
  /\ result_queue = [v \in URLs |-> <<>>]
  /\ held = <<>>
  /\ files = [f \in FileNames |-> 0]
  /\ finals = {}
  /\ temp_files = <<>>
  /\ video_file = "null"
  /\ final_output = 0
  /\ outcome = [v \in URLs |-> "pending"]
  /\ started = [v \in URLs |-> {}]
  /\ remove_failed = [v \in URLs |-> {}]

\* main is not running (PodcastGenerator used on its own)
MainIdle ==
  /\ url_count = 0
  /\ mpc = "idle"
  /\ MainFresh

OutputPath == "podcast.wav"

Init ==
  /\ data \in Documents
  /\ sample_rate \in SampleRates
  /\ pc = "load"
  /\ total_samples = 0
  /\ final_audio = <<>>
  /\ scale = 1
  /\ i = 0
  /\ speaker_label = Null
  /\ settings = Null
  /\ chunks = <<>>
  /\ chunk_idx = 0
  /\ audio = <<>>
  /\ calls = <<>>
  /\ exc = "none"
  /\ ret = "running"
  /\ output_file = <<>>
  /\ placements = <<>>
  /\ alloc_count = 0
  /\ synth_total = 0
  /\ MainIdle


\* ------------------------------------------------- the code's computations
\* A plausible slip: the array is taken from the document whatever its key.
LoadAcceptsAnyKey(d) == FALSE

\* Lines 51-52 and 115: loading fails unless the document has the key 'sentences'.
LoadFails(d) == d.key # "sentences"

\* int(ms / 1000.0 * sr) for ms, sr >= 0: the double product truncated toward zero.
\* ms / 1000.0 is exact when ms is a multiple of 125, and the rounded product can
\* fall below the exact one only by less than 1/1000: the result is the floor of
\* ms * sr / 1000, except that an inexact product of integer value q may come out
\* just below q and truncate to q - 1.
IntOfSeconds(ms, sr) ==
  LET q == (ms * sr) \div 1000
  IN IF ms % 125 = 0 \/ (ms * sr) % 1000 # 0 THEN {q} ELSE {q, q - 1}

\* A plausible slip: the length is rounded up.
TotalSamplesCeil(ms, sr) == {(ms * sr + 999) \div 1000}

\* int(total_duration_seconds * self.sample_rate), lines 128-129
TotalSamples(ms, sr) == IntOfSeconds(ms, sr)

\* Python's round(n / d) for n >= 0, d > 0: the nearest integer, a tie to the even one
RoundHalfEven(n, d) ==
  LET q == n \div d
      r == n % d
  IN IF 2 * r > d \/ (2 * r = d /\ q % 2 = 1) THEN q + 1 ELSE q

\* A plausible slip: the product is rounded to the nearest integer.
StartSampleRound(ms, sr) == {RoundHalfEven(ms * sr, 1000)}

\* int(chunk_start_seconds * self.sample_rate), lines 179, 201, 216 and 237
StartSample(ms, sr) == IntOfSeconds(ms, sr)

\* A plausible slip: the membership test of lines 144-146 is missing.
ResolveSpeakerNoFallback(label) == IF label = Null THEN "A" ELSE label

\* Lines 137-146: None and labels missing from the table become 'A'.
ResolveSpeaker(label) ==
  LET l1 == IF label = Null THEN "A" ELSE label
  IN IF l1 \notin DOMAIN speaker_settings THEN "A" ELSE l1

\* generated_duration > desired_duration * 1.2, with generated_duration = n / sr
\* and desired_duration = ms / 1000.0 (lines 191-194, 228-231)
\* (the double comparison agrees with the exact one away from equality, and
\* equality needs n * 10000 = 12 * ms * sr)
TooLong(n, ms, sr) == n * 10000 > 12 * ms * sr

\* speed = generated_duration / desired_duration (lines 195, 232), for ms # 0
AdjustedSpeed(n, ms, sr) == [num |-> n * 1000, den |-> ms * sr]

\* text.strip() is empty (line 85); a text is its sequence of words
Blank(text) == text = <<>>

\* a (non-empty) waveform of n samples
Wave(n, a) == [k \in 1..n |-> a * k]

\* What generate_audio_segment can return (lines 85-98): nothing for a blank
\* text, an exception or an empty generator; otherwise the pipeline's audio.
SynthOutcomes(text, amps) ==
  IF Blank(text) THEN {<<>>}
  ELSE {<<>>} \cup {Wave(n, a) : n \in 1..MaxWave, a \in amps}

\* Python's a[:k]
PySliceTo(a, k) ==
  IF k >= 0 THEN SubSeq(a, 1, Min(k, Len(a))) ELSE SubSeq(a, 1, Max(0, Len(a) + k))

\* Lines 200-209 and 236-245: the slice assignment final_audio[start:end] = audio.
\* numpy clamps the slice to the array, broadcasts a one-sample value to the
\* slice's length (also to an empty slice) and raises ValueError for any other
\* length mismatch.  start_sample >= 0 as timestamps are.  mix = TRUE adds instead
\* of copying.
PlaceWith(buf, aud, start_sample, total, mix) ==
  LET end0 == start_sample + Len(aud)
      over == end0 > total
      end_sample == IF over THEN total ELSE end0
      aud2 == IF over THEN PySliceTo(aud, total - start_sample) ELSE aud
      lo == Min(start_sample, Len(buf))
      hi == Max(lo, Min(end_sample, Len(buf)))
      values == IF Len(aud2) = hi - lo THEN aud2
                ELSE IF Len(aud2) = 1 THEN [k \in 1..(hi - lo) |-> aud2[1]]
                ELSE <<>>
  IN [raises |-> Len(aud2) # hi - lo /\ Len(aud2) # 1,
      start_sample |-> start_sample, end_sample |-> end0, wave_len |-> Len(aud),
      truncated |-> over, lo |-> lo, hi |-> hi, values |-> values,
      buf |-> [k \in 1..Len(buf) |->
                 IF lo < k /\ k <= hi /\ Len(values) = hi - lo
                 THEN (IF mix THEN buf[k] ELSE 0) + values[k - lo]
                 ELSE buf[k]]]

\* A plausible slip: the segment is added to what the buffer holds (+= for =).
PlaceMix(buf, aud, start_sample, total) == PlaceWith(buf, aud, start_sample, total, TRUE)

PlaceSegment(buf, aud, start_sample, total) == PlaceWith(buf, aud, start_sample, total, FALSE)

Abs(x) == IF x < 0 THEN -x ELSE x

RECURSIVE Peak(_)
\* np.max(np.abs(final_audio)) of a non-empty buffer
Peak(buf) == IF Len(buf) = 1 THEN Abs(buf[1]) ELSE Max(Abs(buf[1]), Peak(Tail(buf)))

\* ------------------------------------------------ floating-point arithmetic
\* A float is [m, e], the value m * 2^e.  Every operation rounds its exact result
\* to the nearest value of Precision significant bits, ties to even, as IEEE 754
\* does (no overflow or underflow at the magnitudes of audio samples).
RECURSIVE Pow2(_)
Pow2(n) == IF n = 0 THEN 1 ELSE 2 * Pow2(n - 1)

\* the bounds of a full significand: MantLo <= m < MantHi
MantLo == Pow2(Precision - 1)
MantHi == Pow2(Precision)

\* the float nearest to n / d * 2^e, for n >= 0 and d > 0
RECURSIVE FlRound(_, _, _)
FlRound(n, d, e) ==
  IF n = 0 THEN [m |-> 0, e |-> 0]
  ELSE IF n < MantLo * d THEN FlRound(2 * n, d, e - 1)
  ELSE IF n >= MantHi * d THEN FlRound(n, 2 * d, e + 1)
  ELSE LET q == n \div d
           r == n % d
           up == 2 * r > d \/ (2 * r = d /\ q % 2 = 1)
       IN [m |-> IF up THEN q + 1 ELSE q, e |-> e]

\* x / y and x * y of floats x >= 0, y > 0
FlDiv(x, y) == FlRound(x.m, y.m, x.e - y.e)
FlMul(x, y) == FlRound(x.m * y.m, 1, x.e + y.e)

\* the literal 0.9 of line 249
TargetPeak == FlRound(9, 10, 0)

\* A plausible slip: the quotient is not multiplied by 0.9 (peak 1.0).
NormalizeSampleToOne(num, peak, sc) ==
  LET q == FlDiv(FlRound(Abs(num), sc, 0), FlRound(peak, sc, 0))
  IN [m |-> IF num < 0 THEN -q.m ELSE q.m, e |-> q.e]

\* Line 249 for one sample num / sc of a buffer of peak peak / sc, peak > 0:
\* x / np.max(np.abs(final_audio)) * 0.9, a division and then a multiplication
NormalizeSample(num, peak, sc) ==
  LET q == FlDiv(FlRound(Abs(num), sc, 0), FlRound(peak, sc, 0))
      r == FlMul(q, TargetPeak)
  IN [m |-> IF num < 0 THEN -r.m ELSE r.m, e |-> r.e]

RECURSIVE MinExp(_)
\* the least exponent of a sequence of floats, at most 0
MinExp(fs) == IF fs = <<>> THEN 0 ELSE Min(fs[1].e, MinExp(Tail(fs)))

\* floats as numerators over the common denominator 2^(-emin)
OverCommonScale(fs, emin) ==
  [samples |-> [k \in 1..Len(fs) |-> fs[k].m * Pow2(fs[k].e - emin)],
   scale |-> Pow2(-emin)]

\* line 249 applied to every sample of a buffer of peak peak / sc
Rescaled(buf, peak, sc) == [k \in 1..Len(buf) |-> NormalizeSample(buf[k], peak, sc)]

\* Lines 248-249: the rescaled buffer, as numerators over the common denominator
\* scale; the buffer is returned as it is when its peak is 0.
NormalizeBuffer(buf, sc) ==
  IF Peak(buf) > 0
  THEN OverCommonScale(Rescaled(buf, Peak(buf), sc), MinExp(Rescaled(buf, Peak(buf), sc)))
  ELSE [samples |-> buf, scale |-> sc]

\* ------------------------------------------------------- the current unit
sentences == data.items
sentence == sentences[i]
InChunkPath == chunk_idx > 0
chunk == chunks[chunk_idx]
\* chunk_text / sentence_text
UnitText == IF InChunkPath THEN [k \in 1..Len(chunk) |-> chunk[k].word] ELSE sentence.text
\* chunk_start_ms / start_ms
UnitStartMs == IF InChunkPath THEN chunk[1].start_ms ELSE sentence.start_time_ms
\* chunk_duration_ms / duration_ms
UnitDurationMs ==
  IF InChunkPath THEN chunk[Len(chunk)].end_ms - chunk[1].start_ms
  ELSE sentence.end_time_ms - sentence.start_time_ms

Call(text, speed, out) ==
  [text |-> text, voice |-> settings.voice, lang |-> settings.lang, speed |-> speed,
   out_len |-> Len(out)]

\* A plausible slip: `break` for `continue`, the sentence's other chunks are left out.
AdvanceUnitBreak ==
  /\ i' = i + 1
  /\ pc' = "sentence"
  /\ UNCHANGED chunk_idx

\* `continue` (lines 189, 226) and the end of a loop body: next chunk or next sentence
AdvanceUnit ==
  IF InChunkPath
  THEN /\ chunk_idx' = chunk_idx + 1
       /\ pc' = "unit"
       /\ UNCHANGED i
  ELSE /\ i' = i + 1
       /\ pc' = "sentence"
       /\ UNCHANGED chunk_idx


\* ----------------------------------------------------------------- actions
\* Lines 113-119: loading raises (ValueError or KeyError), caught: return None.
LoadFail ==
  /\ pc = "load"
  /\ LoadFails(data)
  /\ pc' = "done"
  /\ ret' = Null
  /\ UNCHANGED <<data, sample_rate, total_samples, final_audio, scale, i, speaker_label,
                 settings, chunks, chunk_idx, audio, calls, exc, output_file,
                 placements, alloc_count, synth_total>>
  /\ UNCHANGED mainVars

\* Lines 122-125: no sentence, no end time: return None.
NoEndTimes ==
  /\ pc = "load"
  /\ ~LoadFails(data)
  /\ sentences = <<>>
  /\ pc' = "done"
  /\ ret' = Null
  /\ UNCHANGED <<data, sample_rate, total_samples, final_audio, scale, i, speaker_label,
                 settings, chunks, chunk_idx, audio, calls, exc, output_file,
                 placements, alloc_count, synth_total>>
  /\ UNCHANGED mainVars

\* Lines 122-130: size and zero-fill the buffer, enter the sentence loop.
Allocate ==
  /\ pc = "load"
  /\ ~LoadFails(data)
  /\ sentences # <<>>
  /\ LET all_end_times == [k \in 1..Len(sentences) |-> sentences[k].end_time_ms]
         total_duration_ms == SeqMax(all_end_times)
     IN \E n \in TotalSamples(total_duration_ms, sample_rate) :
          /\ total_samples' = n
          /\ final_audio' = [k \in 1..n |-> 0]
  /\ alloc_count' = alloc_count + 1
  /\ i' = 1
  /\ pc' = "sentence"
  /\ UNCHANGED <<data, sample_rate, scale, speaker_label, settings, chunks, chunk_idx,
                 audio, calls, exc, ret, output_file, placements, synth_total>>
  /\ UNCHANGED mainVars

\* Lines 135-171 (and 212-217): resolve the speaker's settings; with word
\* timestamps build the chunks and enter the chunk loop, else take the sentence whole.
BeginSentence ==
  /\ pc = "sentence"
  /\ i <= Len(sentences)
  /\ LET label == ResolveSpeaker(sentence.speaker)
     IN IF label \in DOMAIN speaker_settings
        THEN /\ speaker_label' = label
             /\ settings' = speaker_settings[label]
             /\ exc' = exc
             /\ pc' = "unit"
             /\ IF sentence.word_timestamps # <<>>
                THEN /\ chunks' = BuildChunks(sentence.word_timestamps)
                     /\ chunk_idx' = 1
                ELSE /\ chunks' = <<>>
                     /\ chunk_idx' = 0
        ELSE \* self.speaker_settings[speaker_label] raises KeyError (line 148)
             /\ speaker_label' = label
             /\ exc' = "KeyError"
             /\ pc' = "raised"
             /\ UNCHANGED <<settings, chunks, chunk_idx>>
  /\ calls' = <<>>
  /\ UNCHANGED <<data, sample_rate, total_samples, final_audio, scale, i, audio, ret,
                 output_file, placements, alloc_count, synth_total>>
  /\ UNCHANGED mainVars

\* Line 174: the chunk loop is exhausted; on to the next sentence.
EndSentence ==
  /\ pc = "unit"
  /\ InChunkPath
  /\ chunk_idx > Len(chunks)
  /\ i' = i + 1
  /\ pc' = "sentence"
  /\ UNCHANGED <<data, sample_rate, total_samples, final_audio, scale, speaker_label,
                 settings, chunks, chunk_idx, audio, calls, exc, ret, output_file,
                 placements, alloc_count, synth_total>>
  /\ UNCHANGED mainVars

\* Lines 185 and 222: first synthesis, at the profile's base speed.
SynthFirst ==
  /\ pc = "unit"
  /\ ~InChunkPath \/ chunk_idx <= Len(chunks)
  /\ \E out \in SynthOutcomes(UnitText, FirstAmp) :
       /\ audio' = out
       /\ calls' = <<Call(UnitText, settings.speed, out)>>
  /\ synth_total' = synth_total + 1
  /\ pc' = "fit"
  /\ UNCHANGED <<data, sample_rate, total_samples, final_audio, scale, i, speaker_label,
                 settings, chunks, chunk_idx, exc, ret, output_file, placements,
                 alloc_count>>
  /\ UNCHANGED mainVars

\* Lines 187-189 and 224-226: no audio, skip the unit.
SkipEmpty ==
  /\ pc = "fit"
  /\ Len(audio) = 0
  /\ AdvanceUnit
  /\ UNCHANGED <<data, sample_rate, total_samples, final_audio, scale, speaker_label,
                 settings, chunks, audio, calls, exc, ret, output_file, placements,
                 alloc_count, synth_total>>
  /\ UNCHANGED mainVars

\* Lines 194 and 231, condition false: the first result is kept.
FitKeep ==
  /\ pc = "fit"
  /\ Len(audio) > 0
  /\ ~TooLong(Len(audio), UnitDurationMs, sample_rate)
  /\ pc' = "place"
  /\ UNCHANGED <<data, sample_rate, total_samples, final_audio, scale, i, speaker_label,
                 settings, chunks, chunk_idx, audio, calls, exc, ret, output_file,
                 placements, alloc_count, synth_total>>
  /\ UNCHANGED mainVars

\* Lines 195 and 232 with a zero target duration: the float division raises
\* ZeroDivisionError, which nothing catches.
FitDivideByZero ==
  /\ pc = "fit"
  /\ Len(audio) > 0
  /\ TooLong(Len(audio), UnitDurationMs, sample_rate)
  /\ UnitDurationMs = 0
  /\ exc' = "ZeroDivisionError"
  /\ pc' = "raised"
  /\ UNCHANGED <<data, sample_rate, total_samples, final_audio, scale, i, speaker_label,
                 settings, chunks, chunk_idx, audio, calls, ret, output_file,
                 placements, alloc_count, synth_total>>
  /\ UNCHANGED mainVars

\* Lines 194-198 and 231-234: second synthesis at the adjusted speed replaces audio.
SynthSecond ==
  /\ pc = "fit"
  /\ Len(audio) > 0
  /\ TooLong(Len(audio), UnitDurationMs, sample_rate)
  /\ UnitDurationMs # 0
  /\ \E out \in SynthOutcomes(UnitText, SecondAmp) :
       /\ audio' = out
       /\ calls' = Append(calls, Call(UnitText,
                      AdjustedSpeed(Len(audio), UnitDurationMs, sample_rate), out))
  /\ synth_total' = synth_total + 1
  /\ pc' = "place"
  /\ UNCHANGED <<data, sample_rate, total_samples, final_audio, scale, i, speaker_label,
                 settings, chunks, chunk_idx, exc, ret, output_file, placements,
                 alloc_count>>
  /\ UNCHANGED mainVars

\* Lines 200-209 and 236-245: truncate at the buffer end and assign the slice.
Place ==
  /\ pc = "place"
  /\ \E start_sample \in StartSample(UnitStartMs, sample_rate) :
     LET r == PlaceSegment(final_audio, audio, start_sample, total_samples)
     IN IF r.raises
        THEN \* could not broadcast input array (line 209 / 245), uncaught
             /\ exc' = "ValueError: broadcast"
             /\ pc' = "raised"
             /\ UNCHANGED <<final_audio, placements, i, chunk_idx>>
        ELSE /\ final_audio' = r.buf
             /\ placements' = Append(placements,
                  [sentence |-> i, chunk |-> chunk_idx, start_ms |-> UnitStartMs,
                   start_sample |-> r.start_sample, end_sample |-> r.end_sample,
                   wave |-> audio, truncated |-> r.truncated,
                   lo |-> r.lo, hi |-> r.hi, values |-> r.values])
             /\ exc' = exc
             /\ AdvanceUnit
  /\ UNCHANGED <<data, sample_rate, total_samples, scale, speaker_label, settings,
                 chunks, audio, calls, ret, output_file, alloc_count, synth_total>>
  /\ UNCHANGED mainVars

\* Line 248 on a buffer of no samples: np.max of a zero-size array raises
\* ValueError, which nothing catches.
NormalizeEmpty ==
  /\ pc = "sentence"
  /\ i > Len(sentences)
  /\ final_audio = <<>>
  /\ exc' = "ValueError: zero-size"
  /\ pc' = "raised"
  /\ UNCHANGED <<data, sample_rate, total_samples, final_audio, scale, i, speaker_label,
                 settings, chunks, chunk_idx, audio, calls, ret, output_file,
                 placements, alloc_count, synth_total>>
  /\ UNCHANGED mainVars

\* Lines 247-249: after the last sentence, rescale to a peak of 0.9 unless silent.
Normalize ==
  /\ pc = "sentence"
  /\ i > Len(sentences)
  /\ final_audio # <<>>
  /\ LET normalized == NormalizeBuffer(final_audio, scale)
     IN /\ final_audio' = normalized.samples
        /\ scale' = normalized.scale
  /\ pc' = "write"
  /\ UNCHANGED <<data, sample_rate, total_samples, i, speaker_label, settings, chunks,
                 chunk_idx, audio, calls, exc, ret, output_file, placements,
                 alloc_count, synth_total>>
  /\ UNCHANGED mainVars

\* Lines 252-255: sf.write succeeds; the path is returned.
WriteOk ==
  /\ pc = "write"
  /\ output_file' = <<[samples |-> final_audio, scale |-> scale, rate |-> sample_rate]>>
  /\ ret' = OutputPath
  /\ pc' = "done"
  /\ UNCHANGED <<data, sample_rate, total_samples, final_audio, scale, i, speaker_label,
                 settings, chunks, chunk_idx, audio, calls, exc, placements,
                 alloc_count, synth_total>>
  /\ UNCHANGED mainVars

\* A plausible slip: the path is returned although sf.write raised.
WriteFailReturnsPath ==
  /\ pc = "write"
  /\ ret' = OutputPath
  /\ pc' = "done"
  /\ UNCHANGED <<data, sample_rate, total_samples, final_audio, scale, i, speaker_label,
                 settings, chunks, chunk_idx, audio, calls, exc, output_file,
                 placements, alloc_count, synth_total>>
  /\ UNCHANGED mainVars

\* Lines 256-258: sf.write raises; caught, None is returned.
WriteFail ==
  /\ pc = "write"
  /\ ret' = Null
  /\ pc' = "done"
  /\ UNCHANGED <<data, sample_rate, total_samples, final_audio, scale, i, speaker_label,
                 settings, chunks, chunk_idx, audio, calls, exc, output_file,
                 placements, alloc_count, synth_total>>
  /\ UNCHANGED mainVars

Next ==
  \/ LoadFail
  \/ NoEndTimes
  \/ Allocate
  \/ BeginSentence
  \/ EndSentence
  \/ SynthFirst
  \/ SkipEmpty
  \/ FitKeep
  \/ FitDivideByZero
  \/ SynthSecond
  \/ Place
  \/ NormalizeEmpty
  \/ Normalize
  \/ WriteOk
  \/ WriteFail

Spec == Init /\ [][Next]_vars


\* ------------------------------------------------- the chunker on its own
\* One sentence of up to MaxChunkWords words, given in any order.
ChunkWords == UNION {WordsOver(ChunkTimes, n) : n \in 1..MaxChunkWords}

ChunkDocuments ==
  {[key |-> "sentences",
    items |-> <<[speaker |-> "B", text |-> [k \in 1..Len(ws) |-> ws[k].word],
                 start_time_ms |-> ws[1].start_ms, end_time_ms |-> ws[Len(ws)].end_ms,
                 word_timestamps |-> ws]>>] : ws \in ChunkWords}

InitChunk ==
  /\ data \in ChunkDocuments
  /\ sample_rate \in SampleRates
  /\ pc = "load"
  /\ total_samples = 0
  /\ final_audio = <<>>
  /\ scale = 1
  /\ i = 0
  /\ speaker_label = Null
  /\ settings = Null
  /\ chunks = <<>>
  /\ chunk_idx = 0
  /\ audio = <<>>
  /\ calls = <<>>
  /\ exc = "none"
  /\ ret = "running"
  /\ output_file = <<>>
  /\ placements = <<>>
  /\ alloc_count = 0
  /\ synth_total = 0
  /\ MainIdle

NextChunk ==
  \/ Allocate
  \/ BeginSentence

SpecChunk == InitChunk /\ [][NextChunk]_vars

\* --------------------------------------------- the normalization on its own
\* The run has placed one sentence's waveform at 2 samples per second: a buffer of
\* up to MaxNormLen samples (numerators over NormScale), the first any multiple of
\* the float spacing below 0.9 of magnitude at most 0.9, the others silent or of
\* magnitude 0.9.
NormScale == Pow2(-TargetPeak.e)

NormBuffers ==
  UNION {{buf \in [1..n -> (-TargetPeak.m)..TargetPeak.m] :
            \A k \in 2..n : buf[k] \in {-TargetPeak.m, 0, TargetPeak.m}} :
           n \in 0..MaxNormLen}

NormSentence(buf) ==
  [speaker |-> "B", text |-> IF buf = <<>> THEN <<>> ELSE <<"hello">>,
   start_time_ms |-> 0, end_time_ms |-> 500 * Len(buf), word_timestamps |-> <<>>]

InitNorm ==
  \E buf \in NormBuffers :
    /\ data = [key |-> "sentences", items |-> <<NormSentence(buf)>>]
    /\ sample_rate = 2
    /\ pc = "sentence"
    /\ total_samples = Len(buf)
    /\ final_audio = buf
    /\ scale = NormScale
    /\ i = 2
    /\ speaker_label = "B"
    /\ settings = speaker_settings["B"]
    /\ chunks = <<>>
    /\ chunk_idx = 0
    /\ audio = buf
    /\ calls = <<[text |-> NormSentence(buf).text, voice |-> speaker_settings["B"].voice,
                  lang |-> speaker_settings["B"].lang,
                  speed |-> speaker_settings["B"].speed, out_len |-> Len(buf)]>>
    /\ exc = "none"
    /\ ret = "running"
    /\ output_file = <<>>
    /\ placements = IF buf = <<>> THEN <<>>
                    ELSE <<[sentence |-> 1, chunk |-> 0, start_ms |-> 0,
                            start_sample |-> 0, end_sample |-> Len(buf), wave |-> buf,
                            truncated |-> FALSE, lo |-> 0, hi |-> Len(buf),
                            values |-> buf]>>
    /\ alloc_count = 1
    /\ synth_total = 1
    /\ MainIdle

NextNorm ==
  \/ NormalizeEmpty
  \/ Normalize
  \/ WriteOk
  \/ WriteFail

SpecNorm == InitNorm /\ [][NextNorm]_vars

\* ------------------------------------------ src/main.py: main, process_video
\* PodcastGenerator is not running on its own: process_video calls it as one step.
PodIdle ==
  /\ pc = "load"
  /\ data = [key |-> "sentences", items |-> <<>>]
  /\ sample_rate = 2
  /\ total_samples = 0
  /\ final_audio = <<>>
  /\ scale = 1
  /\ i = 0
  /\ speaker_label = Null
  /\ settings = Null
  /\ chunks = <<>>
  /\ chunk_idx = 0
  /\ audio = <<>>
  /\ calls = <<>>
  /\ exc = "none"
  /\ ret = "running"
  /\ output_file = <<>>
  /\ placements = <<>>
  /\ alloc_count = 0
  /\ synth_total = 0

\* main is called with 1..MaxUrls URLs in an empty working directory
InitMain ==
  /\ PodIdle
  /\ url_count \in 1..MaxUrls
  /\ mpc = "main"
  /\ MainFresh

Range(seq) == {seq[k] : k \in 1..Len(seq)}

Exists(f) == files[f] # 0

Worker(v, task) == workers[<<v, task>>]

\* get_unique_filename (lines 24-29): the first counter whose file does not exist
UniqueName == CHOOSE k \in 0..MaxUrls : k \notin finals /\ \A j \in 0..(k - 1) : j \in finals

\* cleanup_temp_files (lines 80-86): every listed file that exists is removed,
\* unless its os.remove raises (caught); `failed` are the files whose removal raised
Removed(failed) ==
  [f \in FileNames |-> IF f \in Range(temp_files) /\ f \notin failed THEN 0 ELSE files[f]]

\* Lines 261-264: main's loop calls process_video for the next URL (lines 140-141).
StartUrl ==
  /\ mpc = "main"
  /\ url_idx < url_count
  /\ url_idx' = url_idx + 1
  /\ temp_files' = <<>>
  /\ result_queue' = [result_queue EXCEPT ![url_idx + 1] = <<>>]
  /\ held' = <<>>
  /\ video_file' = Null
  /\ mpc' = "channel"
  /\ UNCHANGED <<url_count, workers, files, finals, final_output, outcome, started,
                 remove_failed>>
  /\ UNCHANGED podVars

\* Line 261: the loop is exhausted, main returns.
MainEnd ==
  /\ mpc = "main"
  /\ url_idx = url_count
  /\ mpc' = "finished"
  /\ UNCHANGED <<url_count, url_idx, workers, result_queue, held, files, finals,
                 temp_files, video_file, final_output, outcome, started, remove_failed>>
  /\ UNCHANGED podVars

\* Lines 145-148: no channel name, process_video returns before any download.
GetChannelFail ==
  /\ mpc = "channel"
  /\ outcome' = [outcome EXCEPT ![url_idx] = "skipped"]
  /\ mpc' = "main"
  /\ UNCHANGED <<url_count, url_idx, workers, result_queue, held, files, finals,
                 temp_files, video_file, final_output, started, remove_failed>>
  /\ UNCHANGED podVars

\* Lines 145-171: channel name found; the output name is fixed, the audio file is
\* listed as temporary and both download threads are started.
StartDownloads ==
  /\ mpc = "channel"
  /\ final_output' = UniqueName
  /\ temp_files' = Append(temp_files, AudioOutput)
  /\ workers' = [workers EXCEPT ![<<url_idx, "audio">>].st = "running",
                                ![<<url_idx, "video">>].st = "running"]
  /\ mpc' = "join_audio"
  /\ UNCHANGED <<url_count, url_idx, result_queue, held, files, finals, video_file,
                 outcome, started, remove_failed>>
  /\ UNCHANGED podVars

\* download_audio_worker, lines 92-100 up to the put: yt-dlp fails (rc_ok false),
\* or ends well having written the audio file or not; line 96 looks for the file.
AudioDownload(v) ==
  /\ Worker(v, "audio").st = "running"
  /\ \E rc_ok \in BOOLEAN, wrote \in BOOLEAN :
       LET files2 == IF rc_ok /\ wrote THEN [files EXCEPT ![AudioOutput] = v] ELSE files
           ok == rc_ok /\ files2[AudioOutput] # 0
       IN /\ files' = files2
          /\ workers' = [workers EXCEPT ![<<v, "audio">>] =
                           [st |-> "report", success |-> ok,
                            msg |-> IF ok THEN Null ELSE "error"]]
  /\ UNCHANGED <<url_count, url_idx, mpc, result_queue, held, finals, temp_files,
                 video_file, final_output, outcome, started, remove_failed>>
  /\ UNCHANGED podVars

\* download_video_worker, lines 105-127 up to the put: yt-dlp fails, or ends well
\* and names the file it wrote in a Destination line, or ends well without that
\* line and the first downloaded_video.* file of the directory is taken.
VideoDownload(v) ==
  /\ Worker(v, "video").st = "running"
  /\ \/ /\ workers' = [workers EXCEPT ![<<v, "video">>] =
                         [st |-> "report", success |-> FALSE, msg |-> "error"]]
        /\ UNCHANGED files
     \/ \E f \in VideoNames :
          /\ files' = [files EXCEPT ![f] = v]
          /\ workers' = [workers EXCEPT ![<<v, "video">>] =
                           [st |-> "report", success |-> TRUE, msg |-> f]]
     \/ /\ UNCHANGED files
        /\ LET possible_files == {f \in VideoNames : Exists(f)}
           IN IF possible_files = {}
              THEN workers' = [workers EXCEPT ![<<v, "video">>] =
                                 [st |-> "report", success |-> FALSE, msg |-> "error"]]
              ELSE \E f \in possible_files :
                     workers' = [workers EXCEPT ![<<v, "video">>] =
                                   [st |-> "report", success |-> TRUE, msg |-> f]]
  /\ UNCHANGED <<url_count, url_idx, mpc, result_queue, held, finals, temp_files,
                 video_file, final_output, outcome, started, remove_failed>>
  /\ UNCHANGED podVars

\* Lines 98, 100, 125 and 127: the worker puts its result and its thread ends.
Report(v, task) ==
  /\ Worker(v, task).st = "report"
  /\ result_queue' = [result_queue EXCEPT ![v] =
                        Append(@, [task |-> task, success |-> Worker(v, task).success,
                                   msg |-> Worker(v, task).msg])]
  /\ workers' = [workers EXCEPT ![<<v, task>>].st = "done"]
  /\ UNCHANGED <<url_count, url_idx, mpc, held, files, finals, temp_files, video_file,
                 final_output, outcome, started, remove_failed>>
  /\ UNCHANGED podVars

\* Line 174: audio_thread.join()
JoinAudio ==
  /\ mpc = "join_audio"
  /\ Worker(url_idx, "audio").st = "done"
  /\ mpc' = "audio_get"
  /\ UNCHANGED <<url_count, url_idx, workers, result_queue, held, files, finals,
                 temp_files, video_file, final_output, outcome, started, remove_failed>>
  /\ UNCHANGED podVars

\* A plausible slip: a failed audio download is taken for a result like any other.
AudioGetIgnoresFailure ==
  /\ mpc = "audio_get"
  /\ result_queue[url_idx] # <<>>
  /\ result_queue' = [result_queue EXCEPT ![url_idx] = Tail(@)]
  /\ IF Head(result_queue[url_idx]).task = "audio"
     THEN mpc' = "transcribe" /\ held' = <<>>
     ELSE mpc' = "audio_requeue" /\ held' = <<Head(result_queue[url_idx])>>
  /\ UNCHANGED <<url_count, url_idx, workers, files, finals, temp_files, video_file,
                 final_output, outcome, started, remove_failed>>
  /\ UNCHANGED podVars

\* Lines 178-189, one turn of the audio loop up to a put: get(block=False) on an
\* empty queue sleeps and polls again; the audio result ends the loop (raising if
\* the download failed); a video result is taken to be put back.
AudioGet ==
  /\ mpc = "audio_get"
  /\ IF result_queue[url_idx] = <<>>
     THEN UNCHANGED <<mpc, result_queue, held>>
     ELSE /\ result_queue' = [result_queue EXCEPT ![url_idx] = Tail(@)]
          /\ LET r == Head(result_queue[url_idx])
             IN IF r.task = "audio"
                THEN /\ mpc' = IF r.success THEN "transcribe" ELSE "except"
                     /\ held' = <<>>
                ELSE /\ mpc' = "audio_requeue"
                     /\ held' = <<r>>
  /\ UNCHANGED <<url_count, url_idx, workers, files, finals, temp_files, video_file,
                 final_output, outcome, started, remove_failed>>
  /\ UNCHANGED podVars

\* A plausible slip: the video result taken first is not put back.
AudioRequeueDrop ==
  /\ mpc = "audio_requeue"
  /\ held' = <<>>
  /\ mpc' = "audio_get"
  /\ UNCHANGED <<url_count, url_idx, workers, result_queue, files, finals, temp_files,
                 video_file, final_output, outcome, started, remove_failed>>
  /\ UNCHANGED podVars

\* Line 187: the video result goes back to the queue.
AudioRequeue ==
  /\ mpc = "audio_requeue"
  /\ result_queue' = [result_queue EXCEPT ![url_idx] = Append(@, held[1])]
  /\ held' = <<>>
  /\ started' = [started EXCEPT ![url_idx] = @ \cup {"requeue"}]
  /\ mpc' = "audio_get"
  /\ UNCHANGED <<url_count, url_idx, workers, files, finals, temp_files, video_file,
                 final_output, outcome, remove_failed>>
  /\ UNCHANGED podVars

\* Lines 192-199: the transcript is listed as temporary; transcribe_audio raises, or
\* returns having saved the transcript or not (transcribe_audio.py lines 168-170,
\* 186); line 198 looks for the file.
Transcribe ==
  /\ mpc = "transcribe"
  /\ temp_files' = Append(temp_files, TranscriptionFile)
  /\ started' = [started EXCEPT ![url_idx] = @ \cup {"transcribe"}]
  /\ \E raised \in BOOLEAN, wrote \in BOOLEAN :
       LET files2 == IF ~raised /\ wrote THEN [files EXCEPT ![TranscriptionFile] = url_idx]
                     ELSE files
       IN /\ files' = files2
          /\ mpc' = IF ~raised /\ files2[TranscriptionFile] # 0 THEN "dub" ELSE "except"
  /\ UNCHANGED <<url_count, url_idx, workers, result_queue, held, finals, video_file,
                 final_output, outcome, remove_failed>>
  /\ UNCHANGED podVars

\* Lines 202-208: the dubbed audio is listed as temporary; generate_podcast_from_json
\* raises, or returns having written the file (the path) or not (None); line 207
\* looks for the file.
Dub ==
  /\ mpc = "dub"
  /\ temp_files' = Append(temp_files, DubbedAudio)
  /\ started' = [started EXCEPT ![url_idx] = @ \cup {"dub"}]
  /\ \E raised \in BOOLEAN, wrote \in BOOLEAN :
       LET files2 == IF ~raised /\ wrote THEN [files EXCEPT ![DubbedAudio] = url_idx]
                     ELSE files
       IN /\ files' = files2
          /\ mpc' = IF ~raised /\ files2[DubbedAudio] # 0 THEN "join_video" ELSE "except"
  /\ UNCHANGED <<url_count, url_idx, workers, result_queue, held, finals, video_file,
                 final_output, outcome, remove_failed>>
  /\ UNCHANGED podVars

\* Line 211: video_thread.join()
JoinVideo ==
  /\ mpc = "join_video"
  /\ Worker(url_idx, "video").st = "done"
  /\ mpc' = "video_get"
  /\ UNCHANGED <<url_count, url_idx, workers, result_queue, held, files, finals,
                 temp_files, video_file, final_output, outcome, started, remove_failed>>
  /\ UNCHANGED podVars

\* Lines 214-225, one turn of the video loop: an empty queue sleeps and polls again;
\* the video result ends the loop (raising if the download failed) and the video
\* file is listed as temporary; any other result is dropped.
VideoGet ==
  /\ mpc = "video_get"
  /\ IF result_queue[url_idx] = <<>>
     THEN UNCHANGED <<mpc, result_queue, video_file, temp_files>>
     ELSE /\ result_queue' = [result_queue EXCEPT ![url_idx] = Tail(@)]
          /\ LET r == Head(result_queue[url_idx])
             IN IF r.task = "video"
                THEN IF r.success
                     THEN /\ video_file' = r.msg
                          /\ temp_files' = Append(temp_files, r.msg)
                          /\ mpc' = "combine"
                     ELSE /\ mpc' = "except"
                          /\ UNCHANGED <<video_file, temp_files>>
                ELSE UNCHANGED <<mpc, video_file, temp_files>>
  /\ UNCHANGED <<url_count, url_idx, workers, held, files, finals, final_output,
                 outcome, started, remove_failed>>
  /\ UNCHANGED podVars

\* Lines 228-234: combine_media.sh fails, or ends well having written the final
\* output or not; line 231 looks for the file.
Combine ==
  /\ mpc = "combine"
  /\ started' = [started EXCEPT ![url_idx] = @ \cup {"combine"}]
  /\ \E rc_ok \in BOOLEAN, wrote \in BOOLEAN :
       /\ finals' = IF rc_ok /\ wrote THEN finals \cup {final_output} ELSE finals
       /\ mpc' = IF rc_ok /\ wrote THEN "cleanup" ELSE "except"
  /\ UNCHANGED <<url_count, url_idx, workers, result_queue, held, files, temp_files,
                 video_file, final_output, outcome, remove_failed>>
  /\ UNCHANGED podVars

\* Line 237: the temporary files are cleaned up and process_video returns.
CleanupAndReturn ==
  /\ mpc = "cleanup"
  /\ \E failed \in SUBSET {f \in Range(temp_files) : Exists(f)} :
       /\ files' = Removed(failed)
       /\ remove_failed' = [remove_failed EXCEPT ![url_idx] = failed]
  /\ outcome' = [outcome EXCEPT ![url_idx] = "ok"]
  /\ mpc' = "main"
  /\ UNCHANGED <<url_count, url_idx, workers, result_queue, held, finals, temp_files,
                 video_file, final_output, started>>
  /\ UNCHANGED podVars

\* Lines 239-243 and 265-268: the exception is caught, the temporary files listed so
\* far are cleaned up, the exception is raised again and main goes on to the next URL.
CleanupAndRaise ==
  /\ mpc = "except"
  /\ \E failed \in SUBSET {f \in Range(temp_files) : Exists(f)} :
       /\ files' = Removed(failed)
       /\ remove_failed' = [remove_failed EXCEPT ![url_idx] = failed]
  /\ outcome' = [outcome EXCEPT ![url_idx] = "raised"]
  /\ mpc' = "main"
  /\ UNCHANGED <<url_count, url_idx, workers, result_queue, held, finals, temp_files,
                 video_file, final_output, started>>
  /\ UNCHANGED podVars

\* the steps of the main thread
MainThread ==
  \/ StartUrl
  \/ MainEnd
  \/ GetChannelFail
  \/ StartDownloads
  \/ JoinAudio
  \/ AudioGet
  \/ AudioRequeue
  \/ Transcribe
  \/ Dub
  \/ JoinVideo
  \/ VideoGet
  \/ Combine
  \/ CleanupAndReturn
  \/ CleanupAndRaise

NextMain ==
  \/ StartUrl
  \/ MainEnd
  \/ GetChannelFail
  \/ StartDownloads
  \/ \E v \in URLs : AudioDownload(v)
  \/ \E v \in URLs : VideoDownload(v)
  \/ \E v \in URLs : \E task \in Tasks : Report(v, task)
  \/ JoinAudio
  \/ AudioGet
  \/ AudioRequeue
  \/ Transcribe
  \/ Dub
  \/ JoinVideo
  \/ VideoGet
  \/ Combine
  \/ CleanupAndReturn
  \/ CleanupAndRaise

SpecMain == InitMain /\ [][NextMain]_vars

\* The threads are scheduled, each yt-dlp subprocess and each external step ends.
FairMain ==
  /\ WF_vars(MainThread)
  /\ \A v \in URLs : WF_vars(AudioDownload(v)) /\ WF_vars(VideoDownload(v))
  /\ \A v \in URLs : \A task \in Tasks : WF_vars(Report(v, task))

SpecMainFair == InitMain /\ [][NextMain]_vars /\ FairMain

\* ------------------------------------------------------------------ claims
\* The chunks of the current sentence have just been built (line 171).
ChunksBuilt == pc = "unit" /\ chunk_idx = 1

SortedByStart(ws) ==
  \A k \in 1..(Len(ws) - 1) : ws[k].start_ms <= ws[k + 1].start_ms

\* the position of the word named nm in the sentence as given
PositionOf(ws, nm) == CHOOSE k \in 1..Len(ws) : ws[k].word = nm

\* C1 as stated: for every sentence with word_timestamps, in any input order, the
\* chunks concatenated in chunk order are the sentence's words in their original order.
C1_OriginalOrder ==
  ChunksBuilt => Flatten(chunks) = sentence.word_timestamps

\* C1 amended: the chunks cover every word exactly once; concatenated in chunk order
\* they list the words by non-decreasing start_ms, words of equal start_ms in their
\* original order; this is the original order when the words were given sorted.
C1_SortedOrder ==
  ChunksBuilt =>
    LET ws == sentence.word_timestamps
        f == Flatten(chunks)
    IN /\ Len(f) = Len(ws)
       /\ \A k \in 1..Len(ws) : Cardinality({j \in 1..Len(f) : f[j] = ws[k]}) = 1
       /\ SortedByStart(f)
       /\ \A j, k \in 1..Len(f) :
            (j < k /\ f[j].start_ms = f[k].start_ms)
              => PositionOf(ws, f[j].word) < PositionOf(ws, f[k].word)
       /\ SortedByStart(ws) => f = ws

\* C1 witness: words given out of order, with a tie, split into several chunks.
C1_Witness ==
  /\ ChunksBuilt
  /\ Len(chunks) >= 2
  /\ Len(sentence.word_timestamps) = 3
  /\ ~SortedByStart(sentence.word_timestamps)
  /\ \E j, k \in 1..3 : j # k /\ sentence.word_timestamps[j].start_ms
                                  = sentence.word_timestamps[k].start_ms

\* C2: adjacent chunks are separated by a gap strictly greater than the pause
\* threshold, inside a chunk every gap (start_ms minus the preceding word's end_ms)
\* is at most the threshold, and no chunk is empty.
C2_PauseInvariant ==
  ChunksBuilt =>
    /\ \A c \in 1..Len(chunks) : chunks[c] # <<>>
    /\ \A c \in 1..(Len(chunks) - 1) :
         chunks[c + 1][1].start_ms - chunks[c][Len(chunks[c])].end_ms > 500
    /\ \A c \in 1..Len(chunks) : \A k \in 2..Len(chunks[c]) :
         chunks[c][k].start_ms - chunks[c][k - 1].end_ms <= 500

\* C2 witness: a gap of exactly 500 ms kept inside a chunk, next to a split.
C2_Witness ==
  /\ ChunksBuilt
  /\ Len(chunks) = 2
  /\ \E c \in 1..2 : \E k \in 2..Len(chunks[c]) :
       chunks[c][k].start_ms - chunks[c][k - 1].end_ms = 500


\* max(all_end_times), for a transcript with at least one sentence
MaxEndMs == SeqMax([k \in 1..Len(sentences) |-> sentences[k].end_time_ms])

\* the sentence loop is running and `sentence` is the current sentence
InSentence == pc \in {"unit", "fit", "place"}

\* C3 as stated: every placement has start_sample >= 0 and writes inside
\* [0, total_samples); a segment passing the buffer end is cut to exactly the samples
\* that remain; a segment that starts inside the buffer is never dropped entirely;
\* placing never raises, for any start time and any waveform length.
C3_PlacementInBounds ==
  /\ exc # "ValueError: broadcast"
  /\ \A j \in 1..Len(placements) :
       LET p == placements[j]
       IN /\ p.start_sample >= 0
          /\ p.lo >= 0 /\ p.hi <= total_samples
          /\ p.end_sample > total_samples
               => Len(p.values) = Max(0, total_samples - p.start_sample)
          /\ (p.wave # <<>> /\ p.start_sample < total_samples) => p.values # <<>>

\* C4 as stated: no failure inside a sentence or chunk leaves
\* generate_podcast_from_json as an exception; the run goes on to normalize and write.
C4_UnitFailuresCaught == exc = "none" /\ pc # "raised"

\* C5: a document without the key 'sentences' makes the run return None at once:
\* no synthesis call, no buffer, no output file.
C5_MissingKeyAborts ==
  data.key # "sentences" =>
    /\ pc \in {"load", "done"}
    /\ pc = "load" => ret = "running"
    /\ pc = "done" => ret = Null
    /\ exc = "none"
    /\ alloc_count = 0 /\ final_audio = <<>>
    /\ synth_total = 0
    /\ output_file = <<>>

\* C5 witness: a document holding sentences under another key has returned None.
C5_Witness ==
  /\ data.key # "sentences"
  /\ data.items # <<>>
  /\ pc = "done"
  /\ ret = Null

\* C6: the default label 'A' is in the voice table; resolving a sentence's voice
\* never fails; a null or unknown label gets the profile of 'A', a known label its own.
C6_VoiceFallback ==
  /\ "A" \in DOMAIN speaker_settings
  /\ exc # "KeyError"
  /\ InSentence =>
       LET raw == sentence.speaker
           expected == IF raw = Null \/ raw \notin DOMAIN speaker_settings
                       THEN "A" ELSE raw
       IN /\ speaker_label = expected
          /\ settings = speaker_settings[expected]
          /\ \A c \in 1..Len(calls) :
               /\ calls[c].voice = speaker_settings[expected].voice
               /\ calls[c].lang = speaker_settings[expected].lang

\* C6 witness: a null label, then an unknown one, both synthesized with the voice
\* of 'A'.
C6_Witness ==
  /\ pc = "fit"
  /\ i = 2
  /\ sentences[1].speaker = Null
  /\ sentences[2].speaker = "Z"
  /\ synth_total = 2
  /\ calls[1].voice = "af_alloy"

\* the target duration of the current unit in ms, from the transcript
TargetMs ==
  IF sentence.word_timestamps # <<>>
  THEN chunks[chunk_idx][Len(chunks[chunk_idx])].end_ms - chunks[chunk_idx][1].start_ms
  ELSE sentence.end_time_ms - sentence.start_time_ms

\* the fitting of the current unit is over: it is about to be placed, or it raised
FitOver == pc = "place" \/ (pc = "raised" /\ exc = "ZeroDivisionError")

\* C7 as stated: a unit is synthesized first at the base speed; a second synthesis
\* happens iff the first result is longer than 1.2 times the target, once, at speed
\* generated / target, and its result replaces the first; otherwise the first result
\* is placed unchanged.  No unit has more than two synthesis calls.
C7_TwoPassFit ==
  /\ Len(calls) <= 2
  /\ calls # <<>> => calls[1].speed = speaker_settings[speaker_label].speed
  /\ FitOver =>
       LET n1 == calls[1].out_len
           longer == n1 * 1000 * 10 > TargetMs * sample_rate * 12
       IN /\ Len(calls) = 2 <=> longer
          /\ Len(calls) = 2 =>
               /\ calls[2].speed.num * TargetMs * sample_rate
                    = calls[2].speed.den * n1 * 1000
               /\ calls[2].speed.den # 0
               /\ audio \in SynthOutcomes(calls[2].text, SecondAmp)
               /\ Len(audio) = calls[2].out_len
          /\ Len(calls) = 1 => audio = Wave(n1, 1)

\* the written range of placement p holds index k (1-based) of the buffer
Covers(p, k) ==
  p.start_sample < k /\ k <= Min(p.start_sample + Len(p.wave), total_samples)

\* the sample the overwrite rule puts at index k after the placements so far
LastWritten(k) ==
  LET cov == {j \in 1..Len(placements) : Covers(placements[j], k)}
  IN IF cov = {} THEN 0
     ELSE LET j == CHOOSE m \in cov : \A o \in cov : o <= m
          IN placements[j].wave[k - placements[j].start_sample]

\* C8: before normalization every sample of the buffer is the corresponding sample
\* of the last-processed segment whose written range covers it, and zero if none does.
C8_Overwrite ==
  pc \in {"sentence", "unit", "fit", "place"} =>
    \A k \in 1..Len(final_audio) : final_audio[k] = LastWritten(k)

\* C8 witness: all units processed, two segments placed, the later one over part of
\* the earlier one with a different sample, part of the earlier one left.
C8_Witness ==
  /\ pc = "sentence"
  /\ i > Len(sentences)
  /\ Len(placements) = 2
  /\ \E k \in 1..Len(final_audio) :
       /\ Covers(placements[1], k) /\ Covers(placements[2], k)
       /\ placements[1].wave[k - placements[1].start_sample]
            # placements[2].wave[k - placements[2].start_sample]
  /\ \E k \in 1..Len(final_audio) :
       Covers(placements[1], k) /\ ~Covers(placements[2], k)

C10_CeilLength ==
  alloc_count > 0 =>
    /\ Len(final_audio) * 1000 >= MaxEndMs * sample_rate
    /\ (Len(final_audio) - 1) * 1000 < MaxEndMs * sample_rate

\* C10 amended: the buffer is allocated once, with the product
\* max(end_time_ms) / 1000 * sample_rate truncated toward zero (its floor); its
\* length never changes, and an output that is written has that many samples.
C10_FloorLength ==
  /\ alloc_count <= 1
  /\ (data.key = "sentences" /\ data.items # <<>> /\ pc # "load") => alloc_count = 1
  /\ alloc_count = 1 =>
       /\ Len(final_audio) = total_samples
       /\ Len(final_audio) * 1000 <= MaxEndMs * sample_rate
       /\ MaxEndMs * sample_rate < (Len(final_audio) + 1) * 1000
  /\ output_file # <<>> =>
       /\ alloc_count = 1
       /\ Len(output_file[1].samples) = (MaxEndMs * sample_rate) \div 1000

\* C10 witness: an output was written after a truncating placement and a rescaling,
\* for a duration that is no whole number of samples.
C10_Witness ==
  /\ output_file # <<>>
  /\ (MaxEndMs * sample_rate) % 1000 # 0
  /\ scale # 1
  /\ \E j \in 1..Len(placements) : placements[j].truncated

\* the second call's result is what a synthesis whose output duration is (duration
\* at speed 1) / speed returns after the first call c1: c1.out_len samples at speed
\* c1.speed are c1.out_len * c1.speed samples at speed 1, and c2 has that many
\* divided by c2.speed, to the nearest sample
LinearSecond(c1, c2) ==
  2 * Abs(c2.out_len * c2.speed.num * c1.speed.den
            - c1.out_len * c1.speed.num * c2.speed.den)
    <= c2.speed.num * c1.speed.den

\* C11 as stated: a unit whose first result is longer than 1.2 times its target is
\* synthesized a second time and placed, and when the synthesis scales with the
\* inverse of the speed the placed segment is within one sample of the target.
C11_SpeedFit ==
  (FitOver /\ calls[1].out_len * 10000 > 12 * TargetMs * sample_rate) =>
    /\ pc = "place"
    /\ Len(calls) = 2
    /\ LinearSecond(calls[1], calls[2]) =>
         Abs(Len(audio) * 1000 - TargetMs * sample_rate) <= 1000

\* the buffer's peak absolute amplitude is 0.9, the normalization's target
PeakIsTarget ==
  /\ final_audio # <<>>
  /\ Peak(final_audio) * Pow2(-TargetPeak.e) = TargetPeak.m * scale

AllZero == final_audio # <<>> /\ Peak(final_audio) = 0

\* the step is the normalization of lines 247-249
NormalizeStep == pc = "sentence" /\ pc' = "write"

C13_WriteFailure ==
  [][pc = "write" =>
       /\ pc' = "done"
       /\ exc' = "none"
       /\ ret' \in {Null, OutputPath}
       /\ output_file' = <<>> => ret' = Null
       /\ ret' = OutputPath =>
            output_file' = <<[samples |-> final_audio, scale |-> scale,
                              rate |-> sample_rate]>>]_vars

\* C13 witness: two segments were placed, the buffer rescaled, the write failed and
\* the run returned None.
C13_Witness ==
  /\ pc = "done"
  /\ ret = Null
  /\ exc = "none"
  /\ output_file = <<>>
  /\ Len(placements) = 2
  /\ scale # 1

\* C14 as stated: every placed segment starts at round(start_ms / 1000 * sample_rate)
\* and has end_sample = start_sample + len(waveform) before truncation.
C14_RoundedStart ==
  \A j \in 1..Len(placements) :
    LET p == placements[j]
    IN /\ p.start_sample = RoundHalfEven(p.start_ms * sample_rate, 1000)
       /\ p.end_sample = p.start_sample + Len(p.wave)

\* C14 amended: every placed segment, of a chunk or of a whole sentence, starts at
\* the product start_ms / 1000 * sample_rate truncated toward zero: its floor, or one
\* less when the product is a whole number that the float product falls short of
\* (never for a start_ms that is a multiple of 125); end_sample is
\* start_sample + len(waveform) before truncation.
C14_TruncatedStart ==
  \A j \in 1..Len(placements) :
    LET p == placements[j]
        exact == p.start_ms * sample_rate
    IN /\ \/ p.start_sample * 1000 <= exact /\ exact < (p.start_sample + 1) * 1000
          \/ /\ exact % 1000 = 0 /\ p.start_ms % 125 # 0
             /\ (p.start_sample + 1) * 1000 = exact
       /\ p.start_sample >= 0
       /\ p.end_sample = p.start_sample + Len(p.wave)
       /\ p.start_ms = IF p.chunk > 0
                       THEN BuildChunks(sentences[p.sentence].word_timestamps)[p.chunk][1].start_ms
                       ELSE sentences[p.sentence].start_time_ms

\* C14 witness: a chunk and a whole sentence were placed, one at a start that is no
\* whole number of samples and is rounded down, one cut at the buffer end.
C14_Witness ==
  /\ Len(placements) = 2
  /\ \E j \in 1..2 : placements[j].chunk > 0
  /\ \E j \in 1..2 : placements[j].chunk = 0
  /\ \E j \in 1..2 : /\ (placements[j].start_ms * sample_rate) % 1000 >= 500
                     /\ placements[j].start_sample
                          = (placements[j].start_ms * sample_rate) \div 1000
  /\ \E j \in 1..2 : placements[j].truncated

\* process_video is running for URL v
Processing(v) == v = url_idx /\ mpc \notin {"main", "finished"}

\* process_video has ended for URL v
Ended(v) == v < url_idx \/ (v = url_idx /\ mpc \in {"main", "finished"})

\* C15: transcription starts only after the audio worker has ended and reported
\* success; after a failed audio download neither transcription nor dubbing nor
\* combining starts and process_video raises; combining starts only after dubbing,
\* when the video worker has ended and reported success and the dubbed audio exists.
C15_StepOrder ==
  \A v \in URLs :
    /\ ((v = url_idx /\ mpc = "transcribe") \/ "transcribe" \in started[v]) =>
         Worker(v, "audio").st = "done" /\ Worker(v, "audio").success
    /\ (Worker(v, "audio").st \in {"report", "done"} /\ ~Worker(v, "audio").success) =>
         /\ started[v] \cap {"transcribe", "dub", "combine"} = {}
         /\ ~(v = url_idx /\ mpc \in {"transcribe", "dub", "join_video", "video_get",
                                       "combine", "cleanup"})
         /\ Ended(v) => outcome[v] = "raised"
    /\ ((v = url_idx /\ mpc = "combine") \/ "combine" \in started[v]) =>
         /\ Worker(v, "video").st = "done" /\ Worker(v, "video").success
         /\ {"transcribe", "dub"} \subseteq started[v]
    /\ (v = url_idx /\ mpc = "combine") => Exists(DubbedAudio)

\* C15 witness: transcription is over and dubbing about to start while the video
\* download is still running.
C15_Witness ==
  /\ mpc = "dub"
  /\ "transcribe" \in started[url_idx]
  /\ Worker(url_idx, "video").st = "running"
  /\ Worker(url_idx, "audio").success

\* C16 as stated: when process_video returns or re-raises after the downloads were
\* started, no temporary file this URL created is left (a file whose os.remove
\* raised aside).
C16_TempFilesDeleted ==
  [][(mpc \in {"cleanup", "except"} /\ mpc' = "main") =>
       \A f \in FileNames :
         files'[f] = url_idx => f \in remove_failed'[url_idx]]_vars

\* C17 as stated: once main has gone on to a later URL no download thread of an
\* earlier URL is running, no two URLs download the video at the same time, and the
\* video file that is combined is the one this URL downloaded.
C17_OneAtATime ==
  /\ \A v \in URLs : \A task \in Tasks :
       v < url_idx => Worker(v, task).st \in {"unstarted", "done"}
  /\ \A v, w \in URLs :
       (v # w) => ~(Worker(v, "video").st = "running" /\ Worker(w, "video").st = "running")
  /\ mpc = "combine" => files[video_file] = url_idx

\* the results of `task` waiting in URL v's queue or taken out to be put back
Waiting(v, task) ==
  Cardinality({k \in 1..Len(result_queue[v]) : result_queue[v][k].task = task})
    + (IF v = url_idx /\ held # <<>> /\ held[1].task = task THEN 1 ELSE 0)

\* the positions of process_video before the loop that takes the result of `task`
\* has taken it
NotYetTaken(task) ==
  IF task = "audio" THEN {"join_audio", "audio_get", "audio_requeue"}
  ELSE {"join_audio", "audio_get", "audio_requeue", "transcribe", "dub", "join_video",
        "video_get"}

\* C18: a worker has put no result before it ends and exactly one when it has ended;
\* a result is in the queue (or being put back) exactly once until its loop takes it,
\* never twice; the audio loop ends with the audio result, the video loop with the
\* video result, and every call of process_video ends.
C18_LoopsTerminate ==
  /\ [](\A v \in URLs : \A task \in Tasks :
          /\ Waiting(v, task) <= 1
          /\ Worker(v, task).st # "done" => Waiting(v, task) = 0
          /\ (Worker(v, task).st = "done" /\ v = url_idx /\ mpc \in NotYetTaken(task))
               => Waiting(v, task) = 1)
  /\ [](mpc = "audio_get" =>
          /\ Worker(url_idx, "audio").st = "done"
          /\ <>(mpc \in {"transcribe", "except"}))
  /\ [](mpc = "video_get" =>
          /\ Worker(url_idx, "video").st = "done"
          /\ <>(mpc \in {"combine", "except"}))
  /\ [](mpc = "channel" => <>(mpc = "main"))
  /\ <>(mpc = "finished")

\* C18 witness: for the second URL the video result came first and was put back,
\* the audio loop and then the video loop ended, each with its result.
C18_Witness ==
  /\ url_idx = 2
  /\ mpc = "combine"
  /\ "requeue" \in started[2]
  /\ result_queue[2] = <<>>
  /\ video_file \in VideoNames

====
